---- MODULE Spec2Model ----
(***************************************************************************)
(* A model of validictory (the Homeloc fork): the recursive schema walker  *)
(* of validator.py, the coercing validator of coercer.py and the extended  *)
(* validator of extended.py.                                               *)
(*                                                                         *)
(* Python values are tagged records.  A string is a sequence of tokens: a  *)
(* data string is a sequence of one-character tokens, a schema keyword or  *)
(* type name is a single token.  A dict is the sequence of its items in    *)
(* iteration order; a schema node is a dict like any other.                *)
(***************************************************************************)
EXTENDS Integers, Sequences, FiniteSets, TLC

VARIABLES self, call, ret

vars == <<self, call, ret>>

(***************************************************************************)
(* Python values                                                           *)
(***************************************************************************)
None == [t |-> "null"]
VBool(b) == [t |-> "bool", b |-> b]
VInt(n) == [t |-> "int", n |-> n]
VLong(n) == [t |-> "long", n |-> n]
VFloat(n) == [t |-> "float", n |-> n]
VStr(s) == [t |-> "str", s |-> s]
VList(l) == [t |-> "list", l |-> l]
VDict(d) == [t |-> "dict", d |-> d]
Item(k, v) == [k |-> k, v |-> v]

\* a keyword or name: a one-token string
K(w) == VStr(<<w>>)
True == VBool(TRUE)
False == VBool(FALSE)

IsNone(v) == v.t = "null"
IsBool(v) == v.t = "bool"
IsStr(v) == v.t = "str"
IsList(v) == v.t = "list"
IsDict(v) == v.t = "dict"
IsIntIdx(v) == v.t = "int"

\* bool(v)
Truthy(v) ==
  CASE v.t = "null" -> FALSE
    [] v.t = "bool" -> v.b
    [] v.t \in {"int", "long", "float"} -> v.n # 0
    [] v.t = "str" -> Len(v.s) > 0
    [] v.t = "list" -> Len(v.l) > 0
    [] v.t = "dict" -> Len(v.d) > 0
    [] OTHER -> TRUE

\* the number a value compares as (True == 1, False == 0)
IsNumeric(v) == v.t \in {"bool", "int", "long", "float"}
NumVal(v) == IF v.t = "bool" THEN (IF v.b THEN 1 ELSE 0) ELSE v.n

SeqRange(s) == {s[i] : i \in 1..Len(s)}

RECURSIVE PyEq(_, _)
\* a == b
PyEq(a, b) ==
  CASE IsNumeric(a) /\ IsNumeric(b) -> NumVal(a) = NumVal(b)
    [] a.t = "list" /\ b.t = "list" ->
         /\ Len(a.l) = Len(b.l)
         /\ \A i \in 1..Len(a.l) : PyEq(a.l[i], b.l[i])
    [] a.t = "dict" /\ b.t = "dict" ->
         /\ Len(a.d) = Len(b.d)
         /\ \A i \in 1..Len(a.d) :
              \E j \in 1..Len(b.d) :
                 a.d[i].k = b.d[j].k /\ PyEq(a.d[i].v, b.d[j].v)
    [] a.t = "str" /\ b.t = "str" -> a.s = b.s
    [] a.t = "null" /\ b.t = "null" -> TRUE
    [] OTHER -> FALSE

\* a local variable: the value v under the name the operator Op gives it
Bind(v, Op(_)) == Op(v)

(***************************************************************************)
(* dict and list primitives                                                *)
(***************************************************************************)
HasKey(d, k) == \E i \in 1..Len(d) : d[i].k = k
KeyIndex(d, k) == CHOOSE i \in 1..Len(d) : d[i].k = k
DictGet(d, k) == d[KeyIndex(d, k)].v
DictGetOr(d, k, dflt) == IF HasKey(d, k) THEN DictGet(d, k) ELSE dflt
\* d[k] = v: a new key is iterated last
DictSet(d, k, v) ==
  IF HasKey(d, k)
    THEN [i \in 1..Len(d) |-> IF d[i].k = k THEN Item(k, v) ELSE d[i]]
    ELSE Append(d, Item(k, v))
\* d.pop(k, default) as the remaining dict
DictDel(d, k) == SelectSeq(d, LAMBDA it : it.k # k)
Keys(d) == [i \in 1..Len(d) |-> d[i].k]

\* fieldname in x
Contains(x, f) ==
  CASE x.t = "dict" -> f.t = "str" /\ HasKey(x.d, f.s)
    [] x.t = "list" -> \E i \in 1..Len(x.l) : PyEq(x.l[i], f)
    [] OTHER -> FALSE

\* x[field]: the value, or the exception the subscript raises
Subscript(x, f) ==
  CASE x.t = "dict" /\ f.t = "str" ->
         IF HasKey(x.d, f.s) THEN [exc |-> "none", v |-> DictGet(x.d, f.s)]
                             ELSE [exc |-> "KeyError", v |-> None]
    [] x.t = "list" /\ f.t = "int" ->
         IF f.n >= 0 /\ f.n < Len(x.l) THEN [exc |-> "none", v |-> x.l[f.n + 1]]
                                       ELSE [exc |-> "IndexError", v |-> None]
    [] OTHER -> [exc |-> "TypeError", v |-> None]

\* x[field] = v on a dict, or on a list position that exists
SetField(x, f, v) ==
  CASE x.t = "dict" -> VDict(DictSet(x.d, f.s, v))
    [] x.t = "list" -> VList([i \in 1..Len(x.l) |-> IF i = f.n + 1 THEN v ELSE x.l[i]])
    [] OTHER -> x

\* SchemaValidator.get
Get(x, f, dflt) ==
  Bind(Subscript(x, f), LAMBDA r : IF r.exc = "none" THEN r.v ELSE dflt)

(***************************************************************************)
(* The validator object and its error scopes                               *)
(***************************************************************************)
\* the classes of validator.py, extended.py and coercer.py
Classes ==
  {"SchemaValidator", "ExtendedSchemaValidator", "SchemaCoercer", "ExtendedSchemaCoercer"}
IsCoercer(c) == c.cls \in {"SchemaCoercer", "ExtendedSchemaCoercer"}
IsExtended(c) == c.cls \in {"ExtendedSchemaValidator", "ExtendedSchemaCoercer"}

\* SchemaValidator.__init__; exc and exc_args are the exception in flight,
\* walking is the number of __validate frames that are active and shared lists
\* the places of the data whose object is the default object of a schema node
NewValidator(cls, required_by_default, blank_by_default) ==
  [cls |-> cls,
   required_by_default |-> required_by_default,
   blank_by_default |-> blank_by_default,
   error_list |-> <<>>,
   error_stack |-> <<>>,
   current_field |-> <<>>,
   current_object |-> <<>>,
   walking |-> 0,
   shared |-> <<>>,
   exc |-> "none",
   exc_args |-> <<>>]

Raise(c, e, args) == [c EXCEPT !.exc = e, !.exc_args = args]
Raised(c) == c.exc # "none"

\* the result of an evaluator: the container as it left it, and the validator
R(x, c) == [x |-> x, c |-> c]

PushErrorStack(c) ==
  [c EXCEPT !.error_stack = Append(@, c.error_list), !.error_list = <<>>]

\* the validator after pop_error_stack; LastError is what the call returns
LastError(c) == c.error_list
PopErrorStack(c) ==
  [c EXCEPT !.error_list = c.error_stack[Len(c.error_stack)],
            !.error_stack = SubSeq(@, 1, Len(@) - 1)]

DigitTok == <<"0", "1", "2", "3", "4", "5", "6", "7", "8", "9">>
RECURSIVE Decimal(_)
\* '%d' % n for n >= 0
Decimal(n) ==
  IF n < 10 THEN <<DigitTok[n + 1]>>
            ELSE Decimal(n \div 10) \o <<DigitTok[(n % 10) + 1]>>

\* the wrapper's name of a field: the key, or '[%d]' % index
FieldLabel(f) ==
  IF f.t = "int" THEN <<"[">> \o Decimal(f.n) \o <<"]">> ELSE f.s

RECURSIVE JoinDot(_)
\* u'.'.join(names)
JoinDot(names) ==
  IF Len(names) = 0 THEN <<>>
  ELSE IF Len(names) = 1 THEN names[1]
  ELSE names[1] \o <<".">> \o JoinDot(Tail(names))

\* the current_field_name property
CurrentFieldName(c) ==
  LET current == IF Len(c.current_field) = 0 THEN <<>>
                 ELSE JoinDot(Tail(c.current_field))
  IN IF Len(current) > 0 THEN VStr(current) ELSE None

ErrorRecord(code, field, msg, suppl) ==
  [code |-> code, field |-> field, msg |-> msg, suppl |-> suppl]

\* SchemaValidator._error
Error(c, code, msg, suppl) ==
  [c EXCEPT !.error_list = Append(@, ErrorRecord(code, CurrentFieldName(c), msg, suppl))]

\* the metaclass wrapper around every validate_<keyword> method: entry
WrapEnter(c, xid, f) ==
  IF Len(c.current_object) > 0 /\ c.current_object[Len(c.current_object)] = xid
    THEN [pop_at_end |-> FALSE,
          c |-> [c EXCEPT !.current_field[Len(c.current_field)] = FieldLabel(f)]]
    ELSE [pop_at_end |-> TRUE,
          c |-> [c EXCEPT !.current_object = Append(@, xid),
                          !.current_field = Append(@, FieldLabel(f))]]

\* the metaclass wrapper: exit (skipped when the method raised)
WrapExit(c, pop_at_end) ==
  IF Raised(c) \/ ~pop_at_end THEN c
  ELSE [c EXCEPT !.current_field = SubSeq(@, 1, Len(@) - 1),
                 !.current_object = SubSeq(@, 1, Len(@) - 1)]

\* the identity of the object stored under field f of the object xid
ChildId(xid, f) == Append(xid, f)
\* the identity of an object built during the call made at field f of xid
FreshId(xid, f, what) == Append(Append(xid, f), [t |-> "new", what |-> what])

(***************************************************************************)
(* Primitive type checkers and comparisons                                 *)
(***************************************************************************)
\* the validate_type_<name> methods a class has
TypeCheckers(c) ==
  {"string", "integer", "number", "boolean", "object", "array", "null", "any"}
    \cup (IF IsExtended(c) THEN {"datetime"} ELSE {})

\* validate_type_<name>(val)
TypeChecker(name, val) ==
  CASE name = "string" -> val.t = "str"
    [] name = "integer" -> val.t \in {"int", "long"}
    [] name = "number" -> val.t \in {"int", "long", "float"}
    [] name = "boolean" -> val.t = "bool"
    [] name = "object" -> val.t = "dict"
    [] name = "array" -> val.t = "list"
    [] name = "null" -> val.t = "null"
    [] name = "any" -> TRUE
    [] name = "datetime" -> val.t = "datetime"

\* Python 2 ordering of values of different kinds: None, then numbers, then
\* the other types by type name
KindRank(v) ==
  CASE v.t = "null" -> 0
    [] IsNumeric(v) -> 1
    [] v.t = "dict" -> 2
    [] v.t = "list" -> 3
    [] OTHER -> 4

\* a < b and a <= b; every bound the model draws is a number
PyLt(a, b) ==
  IF IsNumeric(a) /\ IsNumeric(b) THEN NumVal(a) < NumVal(b)
  ELSE KindRank(a) < KindRank(b)
PyLe(a, b) ==
  IF IsNumeric(a) /\ IsNumeric(b) THEN NumVal(a) <= NumVal(b)
  ELSE KindRank(a) < KindRank(b) \/ (KindRank(a) = KindRank(b) /\ PyEq(a, b))

\* len(v)
PyLen(v) ==
  CASE v.t = "str" -> Len(v.s)
    [] v.t = "list" -> Len(v.l)
    [] v.t = "dict" -> Len(v.d)
    [] OTHER -> 0

\* re.match(pattern, key) for a pattern without metacharacters: the pattern
\* is a prefix of the key
ReMatch(pattern, key) ==
  Len(pattern) <= Len(key) /\ SubSeq(key, 1, Len(pattern)) = pattern

(***************************************************************************)
(* The evaluators that do not recurse                                      *)
(***************************************************************************)
\* validate_required without its flag: every absent field is reported
ValidateRequired_Always(x, xid, f, schema, required, c) ==
  IF ~Contains(x, f)
    THEN R(x, Error(c, "missing-required", None, None))
    ELSE R(x, c)

\* validate_required with the membership test inverted: it reports a required
\* field that is present and is silent about one that is absent
ValidateRequired_Present(x, xid, f, schema, required, c) ==
  IF Contains(x, f) /\ Truthy(required)
    THEN R(x, Error(c, "missing-required", None, None))
    ELSE R(x, c)

\* SchemaValidator.validate_required
ValidateRequired(x, xid, f, schema, required, c) ==
  IF ~Contains(x, f) /\ Truthy(required)
    THEN R(x, Error(c, "missing-required", None, None))
    ELSE R(x, c)

\* SchemaValidator.validate_blank
ValidateBlank(x, xid, f, schema, blank, c) ==
  Bind(Get(x, f, None), LAMBDA value :
    IF IsStr(value) /\ ~Truthy(blank) /\ ~Truthy(value)
      THEN R(x, Error(c, "blank", None, None))
      ELSE R(x, c))

\* SchemaValidator.validate_minimum
ValidateMinimum(x, xid, f, schema, minimum, c) ==
  Bind(Truthy(DictGetOr(schema.d, <<"exclusiveMinimum">>, False)), LAMBDA exclusive :
  Bind(Get(x, f, None), LAMBDA value :
    IF IsNone(value) THEN R(x, c)
    ELSE IF \/ (value.t \in {"int", "float"} /\ (~exclusive /\ PyLt(value, minimum)))
            \/ (exclusive /\ PyLe(value, minimum))
      THEN R(x, Error(c, "less-than-minimum", minimum, value))
      ELSE R(x, c)))

\* SchemaValidator.validate_dependencies; each loop returns at its first record
ValidateDependencies(x, xid, f, schema, dependencies, c) ==
  IF IsNone(Get(x, f, None)) THEN R(x, c)
  ELSE Bind(IF IsStr(dependencies) THEN VList(<<dependencies>>) ELSE dependencies,
            LAMBDA deps :
    IF IsList(deps) THEN
      Bind({i \in 1..Len(deps.l) : ~Contains(x, deps.l[i])}, LAMBDA failing :
        IF failing = {} THEN R(x, c)
        ELSE Bind(CHOOSE i \in failing : \A j \in failing : i <= j, LAMBDA first :
               R(x, Error(c, "dependency", deps.l[first], None))))
    ELSE IF IsDict(deps) THEN
      Bind({i \in 1..Len(deps.d) :
              Contains(x, VStr(deps.d[i].k)) /\ ~Contains(x, deps.d[i].v)},
           LAMBDA failing :
        IF failing = {} THEN R(x, c)
        ELSE Bind(CHOOSE i \in failing : \A j \in failing : i <= j, LAMBDA first :
               R(x, Error(c, "dependency", VStr(deps.d[first].k), deps.d[first].v))))
    ELSE R(x, Raise(c, "SchemaError", <<>>)))

\* ExtendedSchemaValidator.validate_minProperties
ValidateMinProperties(x, xid, f, schema, min_properties, c) ==
  Bind(Get(x, f, None), LAMBDA value :
    IF IsDict(value) /\ PyLt(VInt(PyLen(value)), min_properties)
      THEN R(x, Error(c, "not-enough-properties", None, None))
      ELSE R(x, c))

\* ExtendedSchemaValidator.validate_maxProperties
ValidateMaxProperties(x, xid, f, schema, max_properties, c) ==
  Bind(Get(x, f, None), LAMBDA value :
    IF IsDict(value) /\ PyLt(VInt(PyLen(value)), max_properties)
      THEN R(x, Error(c, "too-many-properties", None, None))
      ELSE R(x, c))

\* value in container, for a set or a list of earlier elements
InContainer(container, value) ==
  \E i \in 1..Len(container) : PyEq(container[i], value)

RECURSIVE UniqueLoop_First(_, _, _, _, _)
\* the loop of validate_uniqueItems with a return after the first record
UniqueLoop_First(i, values, hashables, unhashables, c) ==
  IF i > Len(values.l) THEN c
  ELSE Bind(values.l[i], LAMBDA value :
       Bind(value.t \in {"list", "dict"}, LAMBDA unhashable :
         IF InContainer(IF unhashable THEN unhashables ELSE hashables, value)
           THEN Error(c, "not-unique", value, None)
           ELSE UniqueLoop_First(i + 1, values,
                                 IF unhashable THEN hashables ELSE Append(hashables, value),
                                 IF unhashable THEN Append(unhashables, value)
                                 ELSE unhashables, c)))

RECURSIVE UniqueLoop(_, _, _, _, _)
\* the loop of validate_uniqueItems over the elements, from element i on:
\* hashables and unhashables hold the elements added so far
UniqueLoop(i, values, hashables, unhashables, c) ==
  IF i > Len(values.l) THEN c
  ELSE Bind(values.l[i], LAMBDA value :
       Bind(value.t \in {"list", "dict"}, LAMBDA unhashable :
         IF InContainer(IF unhashable THEN unhashables ELSE hashables, value)
           THEN UniqueLoop(i + 1, values, hashables, unhashables,
                           Error(c, "not-unique", value, None))
           ELSE UniqueLoop(i + 1, values,
                           IF unhashable THEN hashables ELSE Append(hashables, value),
                           IF unhashable THEN Append(unhashables, value)
                           ELSE unhashables, c)))

\* SchemaValidator.validate_uniqueItems
ValidateUniqueItems(x, xid, f, schema, uniqueItems, c) ==
  Bind(Get(x, f, None), LAMBDA values :
    IF IsBool(uniqueItems) /\ ~Truthy(uniqueItems) THEN R(x, c)
    ELSE IF ~IsList(values) THEN R(x, c)
    ELSE R(x, UniqueLoop(1, values, <<>>, <<>>, c)))

(***************************************************************************)
(* The conversions of the coercing validator                               *)
(***************************************************************************)
IsDigit(tok) == \E i \in 1..10 : DigitTok[i] = tok
DigitVal(tok) == (CHOOSE i \in 1..10 : DigitTok[i] = tok) - 1
IsSpace(tok) == tok = " "

RECURSIVE DigitsValue(_)
\* the number a non-empty run of digits denotes
DigitsValue(s) ==
  IF Len(s) = 0 THEN 0
  ELSE 10 * DigitsValue(SubSeq(s, 1, Len(s) - 1)) + DigitVal(s[Len(s)])

RECURSIVE LeadingSpaces(_)
\* how many leading tokens of s are whitespace
LeadingSpaces(s) ==
  IF Len(s) = 0 \/ ~IsSpace(s[1]) THEN 0 ELSE 1 + LeadingSpaces(Tail(s))

RECURSIVE LeadingDigits(_)
\* how many leading tokens of s are digits
LeadingDigits(s) ==
  IF Len(s) = 0 \/ ~IsDigit(s[1]) THEN 0 ELSE 1 + LeadingDigits(Tail(s))

\* s.strip()
Strip(s) ==
  Bind(SubSeq(s, LeadingSpaces(s) + 1, Len(s)), LAMBDA rest :
  Bind(LeadingSpaces([i \in 1..Len(rest) |-> rest[Len(rest) + 1 - i]]), LAMBDA trail :
    SubSeq(rest, 1, Len(rest) - trail)))

\* int(s) of a string: surrounding whitespace, an optional sign, then digits
\* and nothing else; ok is FALSE where int raises ValueError
IntOfString(s) ==
  Bind(Strip(s), LAMBDA b :
  Bind(Len(b) > 0 /\ b[1] \in {"+", "-"}, LAMBDA signed :
  Bind(IF signed THEN Tail(b) ELSE b, LAMBDA body :
  Bind(Len(body) > 0 /\ \A i \in 1..Len(body) : IsDigit(body[i]), LAMBDA ok :
    [ok |-> ok,
     n |-> IF ~ok THEN 0
           ELSE IF signed /\ b[1] = "-" THEN 0 - DigitsValue(body)
           ELSE DigitsValue(body)]))))

\* int(value): ok is FALSE where int raises
IntOf(value) ==
  CASE value.t = "str" -> IntOfString(value.s)
    [] value.t \in {"int", "long", "float"} -> [ok |-> TRUE, n |-> value.n]
    [] value.t = "bool" -> [ok |-> TRUE, n |-> NumVal(value)]
    [] OTHER -> [ok |-> FALSE, n |-> 0]

\* re.match(r'-?\s*\d+', s): the matched group, or no match
IntPrefix(s) ==
  Bind(IF Len(s) > 0 /\ s[1] = "-" THEN 1 ELSE 0, LAMBDA minus :
  Bind(SubSeq(s, minus + 1, Len(s)), LAMBDA s1 :
  Bind(LeadingSpaces(s1), LAMBDA spaces :
  Bind(LeadingDigits(SubSeq(s1, spaces + 1, Len(s1))), LAMBDA digits :
    [matched |-> digits > 0, group |-> SubSeq(s, 1, minus + spaces + digits)]))))

\* SchemaCoercer.coerce_integer
CoerceInteger(x, f, c) ==
  Bind(Get(x, f, None), LAMBDA value :
  Bind(IntOf(value), LAMBDA direct :
    IF direct.ok THEN R(SetField(x, f, VInt(direct.n)), c)
    ELSE Bind(IF value.t = "str" THEN IntPrefix(value.s)
              ELSE [matched |-> FALSE, group |-> <<>>], LAMBDA m :
         Bind(IF m.matched THEN IntOfString(m.group) ELSE [ok |-> FALSE, n |-> 0],
              LAMBDA fallback :
           IF fallback.ok THEN R(SetField(x, f, VInt(fallback.n)), c)
           ELSE R(SetField(x, f, value),
                  Error(c, "impossible-integer-coercion", value, None))))))

\* SchemaCoercer.coerce_number; a string of the model holds no '.', so the
\* optional group (\.\d+)? never matches and float() sees the integer prefix
CoerceNumber(x, f, c) ==
  Bind(Get(x, f, None), LAMBDA value :
  Bind(IF value.t = "str" THEN IntPrefix(value.s)
       ELSE [matched |-> FALSE, group |-> <<>>], LAMBDA m :
  Bind(IF m.matched THEN IntOfString(m.group) ELSE [ok |-> FALSE, n |-> 0],
       LAMBDA parsed :
    IF parsed.ok THEN R(SetField(x, f, VFloat(parsed.n)), c)
    ELSE R(SetField(x, f, value), Error(c, "impossible-number-coercion", value, None)))))

\* SchemaCoercer.coerce_datetime; neither format matches a string shorter
\* than eight characters, and strptime raises on anything but a string
CoerceDatetime(x, f, c) ==
  R(x, Error(c, "impossible-datetime-coercion", Get(x, f, None), None))

\* unicode(value) of a scalar
UnicodeOf(value) ==
  CASE value.t = "str" -> value
    [] value.t = "null" -> VStr(<<"N", "o", "n", "e">>)
    [] value.t = "bool" -> IF value.b THEN VStr(<<"T", "r", "u", "e">>)
                           ELSE VStr(<<"F", "a", "l", "s", "e">>)
    [] value.t \in {"int", "long"} ->
         IF value.n < 0 THEN VStr(<<"-">> \o Decimal(0 - value.n))
         ELSE VStr(Decimal(value.n))
    [] value.t = "float" ->
         IF value.n < 0 THEN VStr(<<"-">> \o Decimal(0 - value.n) \o <<".", "0">>)
         ELSE VStr(Decimal(value.n) \o <<".", "0">>)
    [] OTHER -> VStr(<<"repr">>)

\* SchemaCoercer.coerce_string
CoerceString(x, f, c) == R(SetField(x, f, UnicodeOf(Get(x, f, None))), c)

\* SchemaCoercer.coerce_object
CoerceObject(x, f, c) ==
  R(x, Error(c, "impossible-object-coercion", Get(x, f, None), None))

\* SchemaCoercer.coerce_array
CoerceArray(x, f, c) == R(SetField(x, f, VList(<<Get(x, f, None)>>)), c)

\* SchemaCoercer.coerce_boolean
CoerceBoolean(x, f, c) == R(SetField(x, f, VBool(Truthy(Get(x, f, None)))), c)

\* the coerce_<name> methods of SchemaCoercer
CoerceMethods ==
  {"integer", "number", "datetime", "string", "object", "array", "boolean"}

\* coerce_method(x, fieldname, schema)
Coerce(name, x, f, c) ==
  CASE name = "integer" -> CoerceInteger(x, f, c)
    [] name = "number" -> CoerceNumber(x, f, c)
    [] name = "datetime" -> CoerceDatetime(x, f, c)
    [] name = "string" -> CoerceString(x, f, c)
    [] name = "object" -> CoerceObject(x, f, c)
    [] name = "array" -> CoerceArray(x, f, c)
    [] name = "boolean" -> CoerceBoolean(x, f, c)

(***************************************************************************)
(* The walker and the evaluators that recurse into it                      *)
(***************************************************************************)
\* the names n, among the keywords of the schemas drawn, for which the class
\* has a validate_<n> method that the walker can reach ('required' and 'type'
\* are popped from the working copy)
Evaluators(c) ==
  {"properties", "items", "blank", "patternProperties", "additionalItems",
   "additionalProperties", "minimum", "uniqueItems", "disallow", "dependencies"}
    \cup (IF IsExtended(c) THEN {"minProperties", "maxProperties"} ELSE {})

HasEvaluator(c, key) == Len(key) = 1 /\ key[1] \in Evaluators(c)

Root == VStr(<<"_data">>)

RECURSIVE Walk(_, _, _, _, _)
RECURSIVE WalkNode(_, _, _, _, _)
RECURSIVE Method(_, _, _, _, _, _, _)
RECURSIVE KeywordLoop(_, _, _, _, _, _)
RECURSIVE ValidateType(_, _, _, _, _, _)
RECURSIVE UnionLoop(_, _, _, _, _, _)
RECURSIVE ValidateProperties(_, _, _, _, _, _)
RECURSIVE PropertiesLoop(_, _, _, _, _)
RECURSIVE ValidateItems(_, _, _, _, _, _)
RECURSIVE ItemsLoop(_, _, _, _, _)
RECURSIVE ValidatePatternProperties(_, _, _, _, _, _)
RECURSIVE PatternLoop(_, _, _, _, _, _, _)
RECURSIVE ValidateAdditionalItems(_, _, _, _, _, _)
RECURSIVE ValidateAdditionalProperties(_, _, _, _, _, _)
RECURSIVE AdditionalLoop(_, _, _, _, _, _, _)
RECURSIVE ValidateDisallow(_, _, _, _, _, _)
RECURSIVE Validate(_, _, _, _)
RECURSIVE Validate_(_, _, _, _)
RECURSIVE SuperValidateType(_, _, _, _, _, _)
RECURSIVE CoercerValidateType(_, _, _, _, _, _)

\* SchemaValidator.validate_type
ValidateType(x, xid, f, schema, fieldtype, c) ==
  Bind(Subscript(x, f), LAMBDA sub :
    IF sub.exc \notin {"none", "KeyError"} THEN R(x, Raise(c, sub.exc, <<>>))
    ELSE IF ~(Truthy(fieldtype) /\ sub.exc = "none") THEN R(x, c)
    ELSE IF IsList(fieldtype) THEN UnionLoop(1, x, xid, f, fieldtype, c)
    ELSE IF IsDict(fieldtype) THEN
      Bind(Walk(f, x, xid, fieldtype, PushErrorStack(c)), LAMBDA r :
        IF Raised(r.c) THEN r
        ELSE R(r.x, [PopErrorStack(r.c) EXCEPT !.error_list = @ \o LastError(r.c)]))
    ELSE IF ~(IsStr(fieldtype) /\ Len(fieldtype.s) = 1
                /\ fieldtype.s[1] \in TypeCheckers(c))
      THEN R(x, Raise(c, "SchemaError", <<>>))
    ELSE IF ~TypeChecker(fieldtype.s[1], sub.v)
      THEN R(x, Error(c, "incorrect-type", fieldtype, Get(x, f, None)))
      ELSE R(x, c))

\* the loop over the alternatives of a union type, from alternative i on
UnionLoop(i, x, xid, f, fieldtype, c) ==
  IF i > Len(fieldtype.l)
    THEN R(x, Error(c, "incorrect-type", fieldtype, Get(x, f, None)))
    ELSE Bind(Method("type", x, xid, f, fieldtype.l[i], fieldtype.l[i],
                     PushErrorStack(c)), LAMBDA r :
           IF Raised(r.c) THEN r
           ELSE IF Len(LastError(r.c)) = 0 THEN R(r.x, PopErrorStack(r.c))
           ELSE UnionLoop(i + 1, r.x, xid, f, fieldtype, PopErrorStack(r.c)))

\* SchemaValidator.validate_properties
ValidateProperties(x, xid, f, schema, properties, c) ==
  Bind(Get(x, f, None), LAMBDA value :
    IF IsNone(value) \/ ~IsDict(value) THEN R(x, c)
    ELSE IF ~IsDict(properties) THEN R(x, Raise(c, "SchemaError", <<>>))
    ELSE Bind(PropertiesLoop(1, properties, value, ChildId(xid, f), c), LAMBDA r :
           R(SetField(x, f, r.x), r.c)))

\* the loop over the declared properties, from property i on
PropertiesLoop(i, properties, value, vid, c) ==
  IF i > Len(properties.d) \/ Raised(c) THEN R(value, c)
  ELSE Bind(Walk(VStr(properties.d[i].k), value, vid, properties.d[i].v, c), LAMBDA r :
         PropertiesLoop(i + 1, properties, r.x, vid, r.c))

RECURSIVE ResolveDefaults(_, _, _)
\* validate_items, "resolve defaults now": for position i on of the schema
\* list, a position the array lacks is appended when its schema has a default
ResolveDefaults(i, items, value) ==
  IF i > Len(items.l) THEN value
  ELSE LET item == items.l[i]
       IN IF i > Len(value.l) /\ HasKey(item.d, <<"default">>)
            THEN ResolveDefaults(i + 1, items,
                                 VList(Append(value.l, DictGet(item.d, <<"default">>))))
            ELSE ResolveDefaults(i + 1, items, value)

\* SchemaValidator.validate_items
ValidateItems(x, xid, f, schema, items, c) ==
  Bind(Get(x, f, None), LAMBDA value :
    IF IsNone(value) \/ ~IsList(value) THEN R(x, c)
    ELSE IF IsList(items) THEN
      Bind(IF Len(items.l) # Len(value.l)
             THEN ResolveDefaults(1, items, value) ELSE value, LAMBDA padded :
        IF ~HasKey(schema.d, <<"additionalItems">>) /\ Len(items.l) # Len(padded.l)
          THEN R(SetField(x, f, padded), Error(c, "incorrect-item-length", None, None))
        ELSE IF Len(items.l) = 0 THEN R(SetField(x, f, padded), c)
        ELSE \* the loop returns at the end of its first iteration
             Bind(Walk(VInt(0), padded, ChildId(xid, f), items.l[1], c), LAMBDA r :
               R(SetField(x, f, r.x), r.c)))
    ELSE IF IsDict(items) THEN
      Bind(ItemsLoop(0, items, value, ChildId(xid, f), c), LAMBDA r :
        R(SetField(x, f, r.x), r.c))
    ELSE R(x, Raise(c, "SchemaError", <<>>)))

\* the loop over the elements under a single items schema, from index i on
ItemsLoop(i, items, value, vid, c) ==
  IF i >= Len(value.l) \/ Raised(c) THEN R(value, c)
  ELSE Bind(Walk(VInt(i), value, vid, items, PushErrorStack(c)), LAMBDA r :
         IF Raised(r.c) THEN r
         ELSE IF Len(LastError(r.c)) > 1
           THEN R(r.x, [PopErrorStack(r.c) EXCEPT !.error_list = @ \o LastError(r.c)])
           ELSE ItemsLoop(i + 1, items, r.x, vid, PopErrorStack(r.c)))

\* what the caller's object is after a nested validate call on it: a
\* container is changed in place, anything else is untouched
WrittenBack(old, new) ==
  IF old.t \in {"dict", "list"} /\ new.t = old.t THEN new ELSE old

\* SchemaValidator.validate_patternProperties
ValidatePatternProperties(x, xid, f, schema, patternproperties, c) ==
  Bind(IF IsNone(patternproperties) THEN VDict(<<>>) ELSE patternproperties, LAMBDA pp :
  Bind(Get(x, f, VDict(<<>>)), LAMBDA value_obj :
    IF ~IsDict(pp) THEN R(x, Raise(c, "AttributeError", <<>>))
    ELSE IF Len(pp.d) = 0 THEN R(x, c)
    ELSE IF ~IsDict(value_obj) THEN R(x, Raise(c, "AttributeError", <<>>))
    ELSE Bind(PatternLoop(1, 1, pp, Keys(value_obj.d), value_obj, ChildId(xid, f), c),
              LAMBDA r :
           IF Contains(x, f) THEN R(SetField(x, f, r.x), r.c) ELSE R(x, r.c))))

\* the nested loops over the patterns (from p on) and over the keys the object
\* had when the pattern's loop began (from k on)
PatternLoop(p, k, pp, keys, value_obj, vid, c) ==
  IF p > Len(pp.d) \/ Raised(c) THEN R(value_obj, c)
  ELSE IF k > Len(keys)
    THEN PatternLoop(p + 1, 1, pp, Keys(value_obj.d), value_obj, vid, c)
  ELSE IF ~ReMatch(pp.d[p].k, keys[k])
    THEN PatternLoop(p, k + 1, pp, keys, value_obj, vid, c)
  ELSE Bind(DictGet(value_obj.d, keys[k]), LAMBDA value :
       Bind(Validate(value, FreshId(vid, VStr(keys[k]), "wrapper"), pp.d[p].v, c),
            LAMBDA r :
         PatternLoop(p, k + 1, pp, keys,
                     VDict(DictSet(value_obj.d, keys[k], WrittenBack(value, r.x))),
                     vid, r.c)))

\* SchemaValidator.validate_additionalItems
ValidateAdditionalItems(x, xid, f, schema, additionalItems, c) ==
  Bind(Get(x, f, None), LAMBDA value :
  Bind(HasKey(schema.d, <<"items">>), LAMBDA hasItems :
    IF ~IsList(value) THEN R(x, c)
    ELSE IF IsBool(additionalItems) /\ (Truthy(additionalItems) \/ ~hasItems)
      THEN R(x, c)
    ELSE IF ~hasItems THEN R(x, Raise(c, "KeyError", <<>>))
    ELSE Bind(PyLen(DictGet(schema.d, <<"items">>)), LAMBDA nitems :
      IF IsBool(additionalItems) /\ Len(value.l) # nitems
        THEN R(x, Error(c, "incorrect-list-length", None, None))
      ELSE IF Len(value.l) <= nitems THEN R(x, c)
      ELSE Bind(Validate_(VList(SubSeq(value.l, nitems + 1, Len(value.l))),
                          FreshId(xid, f, "remaining"),
                          VDict(<<Item(<<"items">>, additionalItems)>>), c), LAMBDA r :
             R(SetField(x, f,
                        VList([i \in 1..Len(value.l) |->
                                 IF i > nitems /\ i - nitems <= PyLen(r.x)
                                      /\ r.x.t = "list"
                                   THEN WrittenBack(value.l[i], r.x.l[i - nitems])
                                   ELSE value.l[i]])),
               r.c)))))

\* SchemaValidator.validate_additionalProperties
ValidateAdditionalProperties(x, xid, f, schema, additionalProperties, c) ==
  Bind(Get(x, f, None), LAMBDA value :
  Bind(DictGetOr(schema.d, <<"properties">>, VList(<<>>)), LAMBDA properties :
    IF ~IsDict(value) THEN R(x, c)
    ELSE IF IsBool(additionalProperties) /\ Truthy(additionalProperties) THEN R(x, c)
    ELSE IF ~(IsDict(additionalProperties) \/ IsBool(additionalProperties))
      THEN R(x, Raise(c, "SchemaError", <<>>))
    ELSE Bind(AdditionalLoop(1, value, ChildId(xid, f),
                             IF IsNone(properties) THEN VDict(<<>>) ELSE properties,
                             DictGetOr(schema.d, <<"patternProperties">>, VList(<<>>)),
                             additionalProperties, c), LAMBDA r :
           R(SetField(x, f, r.x), r.c))))

\* the pattern keys of a patternProperties dict (or the elements of a list)
PatternsOf(patternProperties) ==
  CASE patternProperties.t = "dict" -> SeqRange(Keys(patternProperties.d))
    [] OTHER -> {}

\* eachProperty in properties
Declares(properties, key) ==
  CASE properties.t = "dict" -> HasKey(properties.d, key)
    [] OTHER -> FALSE

\* the loop over the keys of the object, from key i on
AdditionalLoop(i, value, vid, properties, patternProperties, additionalProperties, c) ==
  IF i > Len(value.d) \/ Raised(c) THEN R(value, c)
  ELSE IF \/ Declares(properties, value.d[i].k)
          \/ \E pattern \in PatternsOf(patternProperties) :
                ReMatch(pattern, value.d[i].k)
    THEN AdditionalLoop(i + 1, value, vid, properties, patternProperties,
                        additionalProperties, c)
  ELSE IF IsBool(additionalProperties) /\ ~Truthy(additionalProperties)
    THEN R(value, Error(c, "forbidden-property", VStr(value.d[i].k), None))
  ELSE Bind(Validate(value, FreshId(vid, VStr(value.d[i].k), "wrapper"),
                     additionalProperties, c), LAMBDA r :
       Bind(WrittenBack(value, r.x), LAMBDA v2 :
         IF Raised(r.c) THEN R(v2, r.c)
         ELSE IF Len(v2.d) # Len(value.d) /\ i < Len(value.d)
           THEN \* dictionary changed size during iteration
                R(v2, Raise(r.c, "RuntimeError", <<>>))
         ELSE AdditionalLoop(i + 1, v2, vid, properties, patternProperties,
                             additionalProperties, r.c)))

\* super(SchemaCoercer, self).validate_type: the base method, itself wrapped
SuperValidateType(x, xid, f, schema, fieldtype, c) ==
  Bind(WrapEnter(c, xid, f), LAMBDA e :
  Bind(ValidateType(x, xid, f, schema, fieldtype, e.c), LAMBDA r :
    R(r.x, WrapExit(r.c, e.pop_at_end))))

\* SchemaCoercer.validate_type
CoercerValidateType(x, xid, f, schema, fieldtype, c) ==
  Bind(SuperValidateType(x, xid, f, schema, fieldtype, PushErrorStack(c)), LAMBDA r :
  Bind(PopErrorStack(r.c), LAMBDA c2 :
    IF Raised(r.c) THEN r
    ELSE IF Len(LastError(r.c)) = 0 THEN R(r.x, c2)
    ELSE IF ~Truthy(fieldtype) \/ ~Contains(r.x, f)
      THEN R(r.x, Error(c2, "impossible-coercion", fieldtype, None))
    ELSE IF ~IsStr(fieldtype) THEN R(r.x, Error(c2, "impossible-coercion", fieldtype, None))
    ELSE IF ~(Len(fieldtype.s) = 1 /\ fieldtype.s[1] \in CoerceMethods)
      THEN R(r.x, Raise(c2, "AttributeError", <<>>))
    ELSE Bind(Coerce(fieldtype.s[1], r.x, f, PushErrorStack(c2)), LAMBDA r3 :
           IF Len(LastError(r3.c)) = 0
             THEN SuperValidateType(r3.x, xid, f, schema, fieldtype, PopErrorStack(r3.c))
             ELSE R(r3.x, [PopErrorStack(r3.c) EXCEPT
                             !.error_list = @ \o LastError(r3.c)]))))

RECURSIVE CoercerAdditionalLoop(_, _, _, _, _, _)
\* SchemaCoercer.validate_additionalProperties: the loop over the keys of the
\* object, from key i on, collecting props_to_delete; self.__validate is
\* mangled to _SchemaCoercer__validate, an attribute no class defines
CoercerAdditionalLoop(i, value, properties, patternProperties, additionalProperties, c) ==
  IF i > Len(value.d) THEN R(<<>>, c)
  ELSE Bind(CoercerAdditionalLoop(i + 1, value, properties, patternProperties,
                                  additionalProperties, c), LAMBDA rest :
         IF \/ Declares(properties, value.d[i].k)
            \/ \E pattern \in PatternsOf(patternProperties) :
                  ReMatch(pattern, value.d[i].k)
           THEN rest
         ELSE IF IsBool(additionalProperties) /\ ~Truthy(additionalProperties)
           THEN R(<<value.d[i].k>> \o rest.x, rest.c)
         ELSE R(<<>>, Raise(c, "AttributeError", <<>>)))

\* SchemaCoercer.validate_additionalProperties
CoercerValidateAdditionalProperties(x, xid, f, schema, additionalProperties, c) ==
  Bind(Get(x, f, None), LAMBDA value :
  Bind(DictGetOr(schema.d, <<"properties">>, VList(<<>>)), LAMBDA properties :
    IF ~IsDict(value) THEN R(x, c)
    ELSE IF IsBool(additionalProperties) /\ Truthy(additionalProperties) THEN R(x, c)
    ELSE IF ~(IsDict(additionalProperties) \/ IsBool(additionalProperties))
      THEN R(x, Raise(c, "SchemaError", <<>>))
    ELSE Bind(CoercerAdditionalLoop(1, value,
                                    IF IsNone(properties) THEN VDict(<<>>) ELSE properties,
                                    DictGetOr(schema.d, <<"patternProperties">>, VList(<<>>)),
                                    additionalProperties, c), LAMBDA r :
           IF Raised(r.c) THEN R(x, r.c)
           ELSE R(SetField(x, f, VDict(SelectSeq(value.d,
                    LAMBDA it : \A i \in 1..Len(r.x) : r.x[i] # it.k))), r.c))))

\* SchemaValidator.validate_disallow
ValidateDisallow(x, xid, f, schema, disallow, c) ==
  Bind(Method("type", x, xid, f, schema, disallow, PushErrorStack(c)), LAMBDA r :
    IF Raised(r.c) THEN r
    ELSE IF Len(LastError(r.c)) > 1 THEN R(r.x, PopErrorStack(r.c))
    ELSE R(r.x, Error(PopErrorStack(r.c), "disallowed-type", disallow,
                      Get(r.x, f, None))))

\* SchemaValidator.validate
Validate(data, wid, schema, c) ==
  Bind(Validate_(data, wid, schema, c), LAMBDA r :
    IF Raised(r.c) THEN r
    ELSE IF Len(r.c.error_list) > 0
      THEN R(r.x, Raise(r.c, "ValidationError", r.c.error_list))
      ELSE r)

\* SchemaValidator._validate
Validate_(data, wid, schema, c) ==
  Bind(Walk(Root, VDict(<<Item(Root.s, data)>>), wid, schema, c), LAMBDA r :
    R(DictGet(r.x.d, Root.s), r.c))

\* validator(data, fieldname, newschema, value) through the metaclass wrapper
Method(name, x, xid, f, schema, arg, c) ==
  IF Raised(c) THEN R(x, c)
  ELSE Bind(WrapEnter(c, xid, f), LAMBDA e :
       Bind(CASE name = "required" -> ValidateRequired(x, xid, f, schema, arg, e.c)
              [] name = "type" ->
                   IF IsCoercer(c) THEN CoercerValidateType(x, xid, f, schema, arg, e.c)
                   ELSE ValidateType(x, xid, f, schema, arg, e.c)
              [] name = "blank" -> ValidateBlank(x, xid, f, schema, arg, e.c)
              [] name = "minimum" -> ValidateMinimum(x, xid, f, schema, arg, e.c)
              [] name = "uniqueItems" -> ValidateUniqueItems(x, xid, f, schema, arg, e.c)
              [] name = "minProperties" ->
                   ValidateMinProperties(x, xid, f, schema, arg, e.c)
              [] name = "maxProperties" ->
                   ValidateMaxProperties(x, xid, f, schema, arg, e.c)
              [] name = "disallow" -> ValidateDisallow(x, xid, f, schema, arg, e.c)
              [] name = "dependencies" -> ValidateDependencies(x, xid, f, schema, arg, e.c)
              [] name = "properties" -> ValidateProperties(x, xid, f, schema, arg, e.c)
              [] name = "items" -> ValidateItems(x, xid, f, schema, arg, e.c)
              [] name = "patternProperties" ->
                   ValidatePatternProperties(x, xid, f, schema, arg, e.c)
              [] name = "additionalItems" ->
                   ValidateAdditionalItems(x, xid, f, schema, arg, e.c)
              [] name = "additionalProperties" ->
                   IF IsCoercer(c)
                     THEN CoercerValidateAdditionalProperties(x, xid, f, schema, arg, e.c)
                     ELSE ValidateAdditionalProperties(x, xid, f, schema, arg, e.c),
            LAMBDA r : R(r.x, WrapExit(r.c, e.pop_at_end))))

\* the loop of __validate over the keywords of the working copy, from the
\* i-th on
KeywordLoop(i, newschema, f, data, did, c) ==
  IF i > Len(newschema.d) \/ Raised(c) THEN R(data, c)
  ELSE Bind(IF HasEvaluator(c, newschema.d[i].k)
              THEN Method(newschema.d[i].k[1], data, did, f, newschema,
                          newschema.d[i].v, c)
              ELSE R(data, c), LAMBDA r :
         KeywordLoop(i + 1, newschema, f, r.x, did, r.c))

\* the body of __validate once the schema is known to be a dict
WalkNode(f, data, did, schema, c0) ==
  Bind(IsDict(data) /\ ~Contains(data, f) /\ HasKey(schema.d, <<"default">>),
       LAMBDA defaulted :
  Bind(IF defaulted THEN SetField(data, f, DictGet(schema.d, <<"default">>))
       ELSE data, LAMBDA data1 :
  \* data[fieldname] is now the very object schema['default'] names
  Bind(IF defaulted THEN [c0 EXCEPT !.shared = Append(@, ChildId(did, f))] ELSE c0,
       LAMBDA c :
  Bind(IF HasKey(schema.d, <<"blank">>) THEN schema.d
       ELSE DictSet(schema.d, <<"blank">>, VBool(c.blank_by_default)), LAMBDA blanked :
  Bind(DictDel(blanked, <<"required">>), LAMBDA unrequired :
  Bind(VDict(DictDel(unrequired, <<"type">>)), LAMBDA newschema :
    IF HasKey(schema.d, <<"optional">>) \/ HasKey(schema.d, <<"requires">>)
      THEN R(data1, Raise(c, "SchemaError", <<>>))
    ELSE Bind(Method("required", data1, did, f, VDict(unrequired),
                     DictGetOr(blanked, <<"required">>, VBool(c.required_by_default)),
                     c), LAMBDA r1 :
         Bind(IF HasKey(schema.d, <<"type">>)
                THEN Method("type", r1.x, did, f, newschema,
                            DictGet(schema.d, <<"type">>), r1.c)
                ELSE r1, LAMBDA r2 :
           KeywordLoop(1, newschema, f, r2.x, did, r2.c)))))))))

\* SchemaValidator.__validate
Walk(f, data, did, schema, c) ==
  IF Raised(c) \/ IsNone(schema) THEN R(data, c)
  ELSE IF ~IsDict(schema) THEN R(data, Raise(c, "SchemaError", <<>>))
  ELSE Bind(WalkNode(f, data, did, schema, [c EXCEPT !.walking = @ + 1]), LAMBDA r :
         IF Raised(r.c) THEN r ELSE R(r.x, [r.c EXCEPT !.walking = @ - 1]))

(***************************************************************************)
(* The schemas and data the calls are drawn from                           *)
(***************************************************************************)
\* the most keys a data object holds
MaxKeys == 2

\* every sequence that lists the finite set S once
Orderings(S) ==
  {q \in [1..Cardinality(S) -> S] :
     \A i, j \in 1..Cardinality(S) : i # j => q[i] # q[j]}

\* every dict whose keys list a subset of at most n of the keys, in every
\* order, each key with a value of vals
DictsOver(keys, vals, n) ==
  UNION {UNION {{VDict([i \in 1..Len(q) |-> Item(q[i], v[i])]) :
                   v \in [1..Len(q) -> vals]} : q \in Orderings(ks)} :
           ks \in {z \in SUBSET keys : Cardinality(z) <= n}}

\* every schema node made of the type entry (when given) followed by one
\* entry of each of the chosen keywords, in every order
Node(typeEntry, entries) == VDict(typeEntry \o entries)
NodesOf(typeEntries, keywordChoices) ==
  LET AtMostOne(k) == {{}} \cup {{e} : e \in keywordChoices[k]}
      Picks == {p \in [DOMAIN keywordChoices ->
                         UNION {AtMostOne(k) : k \in DOMAIN keywordChoices}] :
                  \A k \in DOMAIN keywordChoices : p[k] \in AtMostOne(k)}
  IN UNION {{Node(t, q) : q \in Orderings(UNION {p[k] : k \in DOMAIN p}),
                          t \in typeEntries} : p \in Picks}

KeyA == <<"a">>
KeyAB == <<"a", "b">>
KeyB == <<"b">>
TypeOf(name) == Item(<<"type">>, K(name))
StringRequired == VDict(<<TypeOf("string"), Item(<<"required">>, True)>>)
StringOptional == VDict(<<TypeOf("string"), Item(<<"required">>, False)>>)

\* object schemas: properties, patternProperties and additionalProperties
ObjectData == DictsOver({KeyA, KeyAB, KeyB}, {VInt(1), VStr(<<"x">>)}, MaxKeys)
PropertiesChoices ==
  {Item(<<"properties">>, p) :
     p \in {VDict(<<Item(KeyA, StringRequired)>>),
            VDict(<<Item(KeyA, StringOptional)>>),
            VDict(<<Item(KeyA, StringRequired), Item(KeyB, StringRequired)>>)}}
PatternChoices ==
  {Item(<<"patternProperties">>, VDict(<<Item(KeyA, VDict(<<TypeOf("string")>>))>>))}
AdditionalChoices ==
  {Item(<<"additionalProperties">>, a) :
     a \in {False, True, VDict(<<TypeOf("integer")>>)}}
ObjectSchemas ==
  NodesOf({<<>>, <<TypeOf("object")>>},
          <<PropertiesChoices, PatternChoices, AdditionalChoices>>)
ObjectCalls == ObjectSchemas \X ObjectData

\* the most alternatives of a union type
MaxAlternatives == 2
\* the most positions of a positional items schema
MaxItems == 2
\* the longest data array
MaxLen == 2
\* the longest data string given to the coercing validator
MaxStrLen == 2
\* the largest magnitude of a data number
MaxNum == 2

\* every non-empty sequence over S of length at most n
SeqsUpTo(S, n) == UNION {[1..k -> S] : k \in 1..n}

\* union types: type names, an unknown type name and nested schemas
PatternAlternative ==
  VDict(<<Item(<<"patternProperties">>,
               VDict(<<Item(KeyA, VDict(<<TypeOf("string")>>))>>))>>)
Alternatives ==
  {K("string"), K("integer"), K("null"), K("object"), K("bogus"),
   VDict(<<TypeOf("integer"), Item(<<"minimum">>, VInt(2))>>),
   PatternAlternative}
UnionSchemas ==
  {VDict(<<Item(<<"type">>, VList(alts))>>) :
     alts \in SeqsUpTo(Alternatives, MaxAlternatives)}
UnionData ==
  {None, VInt(1), VInt(3), VStr(<<"x">>),
   VDict(<<Item(KeyA, VInt(1))>>), VDict(<<Item(KeyA, VStr(<<"x">>))>>)}
UnionCalls == UnionSchemas \X UnionData

\* positional items schemas, with and without additionalItems
ItemNodes ==
  {VDict(<<Item(<<"required">>, False)>>),
   VDict(<<Item(<<"default">>, VInt(1)), Item(<<"required">>, False)>>),
   VDict(<<Item(<<"default">>, VInt(2)), TypeOf("integer")>>)}
ItemsChoices ==
  {Item(<<"items">>, VList(nodes)) : nodes \in SeqsUpTo(ItemNodes, MaxItems)}
AdditionalItemsChoices == {Item(<<"additionalItems">>, a) : a \in {False, True}}
ItemsSchemas ==
  {n \in NodesOf({<<>>}, <<ItemsChoices, AdditionalItemsChoices>>) :
     HasKey(n.d, <<"items">>)}
ItemsData ==
  {VList(<<>>)} \cup {VList(l) : l \in SeqsUpTo({VInt(0), VInt(1), VStr(<<"x">>)}, MaxLen)}
ItemsCalls == ItemsSchemas \X ItemsData

\* numeric bounds
MinimumChoices == {Item(<<"minimum">>, VInt(m)) : m \in {0, 1}}
ExclusiveChoices == {Item(<<"exclusiveMinimum">>, e) : e \in {False, True}}
MinimumSchemas ==
  {n \in NodesOf({<<>>}, <<MinimumChoices, ExclusiveChoices>>) :
     HasKey(n.d, <<"minimum">>)}
Numbers ==
  UNION {{VInt(n), VLong(n), VFloat(n)} : n \in (0 - MaxNum)..MaxNum}
MinimumData == Numbers \cup {None, True, VStr(<<"x">>)}
MinimumCalls == MinimumSchemas \X MinimumData

\* integer fields given to the coercing validator: at the root, as a property
\* of an object and as an element of an array
Alphabet == {"-", "+", " ", "4", "2", "a"}
Strings == {VStr(q) : q \in SeqsUpTo(Alphabet, MaxStrLen)}
KeyX == <<"x">>
IntegerNode == VDict(<<TypeOf("integer")>>)
IntegerProperty == VDict(<<Item(<<"properties">>, VDict(<<Item(KeyX, IntegerNode)>>))>>)
IntegerItems == VDict(<<Item(<<"items">>, IntegerNode)>>)
CoercionCalls ==
  UNION {{<<IntegerNode, v>>,
          <<IntegerProperty, VDict(<<Item(KeyX, v)>>)>>,
          <<IntegerItems, VList(<<v>>)>>} : v \in Strings}

\* arrays under uniqueItems, with and without a single items schema; the
\* arrays are one element longer than MaxLen so that an element can repeat twice
UniqueSchemas ==
  {n \in NodesOf({<<>>, <<TypeOf("array")>>},
                 <<{Item(<<"items">>, IntegerNode)},
                   {Item(<<"uniqueItems">>, u) : u \in {True, False}}>>) :
     HasKey(n.d, <<"uniqueItems">>)}
UniqueData ==
  {VList(<<>>)}
    \cup {VList(l) : l \in SeqsUpTo({VInt(1), VInt(2), VList(<<VInt(1)>>), VDict(<<>>)},
                                    MaxLen + 1)}
UniqueCalls == UniqueSchemas \X UniqueData

\* disallowed types: a type name, a union and a nested schema
DisallowSchemas ==
  {VDict(<<Item(<<"disallow">>, t)>>) :
     t \in {K("string"), K("integer"), VList(<<K("string"), K("null")>>),
            VDict(<<TypeOf("integer"), Item(<<"minimum">>, VInt(2))>>)}}
DisallowCalls == DisallowSchemas \X {None, VInt(1), VInt(3), VStr(<<"x">>)}

\* objects whose declared fields set required, a default, both or neither
RequiredNodes ==
  {VDict(<<>>), VDict(<<Item(<<"required">>, True)>>),
   VDict(<<Item(<<"required">>, False)>>), VDict(<<Item(<<"default">>, VInt(1))>>),
   VDict(<<Item(<<"default">>, VInt(1)), Item(<<"required">>, True)>>)}
RequiredSchemas ==
  {VDict(<<Item(<<"properties">>, p)>>) : p \in DictsOver({KeyA, KeyB}, RequiredNodes, 2)}
RequiredCalls == RequiredSchemas \X DictsOver({KeyA, KeyB}, {VInt(2)}, MaxKeys)

\* a declared field whose default is an object or an array that the walk of
\* its own node fills in
DefaultNodes ==
  {VDict(<<Item(<<"default">>, VDict(<<>>)),
           Item(<<"properties">>,
                VDict(<<Item(KeyB, VDict(<<Item(<<"default">>, VInt(1))>>))>>))>>),
   VDict(<<Item(<<"default">>, VList(<<>>)),
           Item(<<"items">>, VList(<<VDict(<<Item(<<"default">>, VInt(1))>>)>>))>>),
   VDict(<<Item(<<"default">>, VDict(<<>>))>>),
   VDict(<<Item(<<"default">>, VInt(1))>>)}
DefaultCalls ==
  {VDict(<<Item(<<"properties">>, VDict(<<Item(KeyA, n)>>))>>) : n \in DefaultNodes}
    \X {VDict(<<>>), VDict(<<Item(KeyA, VDict(<<>>))>>), VDict(<<Item(KeyB, VInt(2))>>)}

\* types without a name to resolve, given to the coercing validator: a union
\* and a nested schema
UnresolvedCalls ==
  {VDict(<<Item(<<"type">>, t)>>) :
     t \in {VList(<<K("integer"), K("number")>>), IntegerNode}}
    \X {VStr(<<"a">>), VStr(<<"4">>)}

\* an optional field a with dependencies on its siblings a, b and c, given as
\* a name, a list of names and a mapping; the field is absent, null or a number
KeyC == <<"c">>
DependencySchemas ==
  {VDict(<<Item(<<"properties">>,
                VDict(<<Item(KeyA, VDict(<<Item(<<"required">>, False),
                                           Item(<<"dependencies">>, d)>>))>>))>>) :
     d \in {VStr(KeyB), VList(<<VStr(KeyB), VStr(KeyC)>>),
            VDict(<<Item(KeyB, VStr(KeyC))>>),
            VDict(<<Item(KeyA, VStr(KeyC)), Item(KeyB, VStr(KeyC))>>)}}
DependencyCalls ==
  DependencySchemas
    \X {VDict(a \o bc) : a \in {<<>>, <<Item(KeyA, VInt(1))>>, <<Item(KeyA, None)>>},
                         bc \in {<<>>, <<Item(KeyB, VInt(1))>>, <<Item(KeyC, VInt(1))>>,
                                 <<Item(KeyB, VInt(1)), Item(KeyC, VInt(1))>>}}

\* bounds on the number of keys, given to the extended validator with objects
\* of no key up to MaxKeys keys and with values that are no object
CountSchemas ==
  {n \in NodesOf({<<>>}, <<{Item(<<"minProperties">>, VInt(m)) : m \in 0..MaxKeys},
                           {Item(<<"maxProperties">>, VInt(m)) : m \in 0..MaxKeys}>>) :
     Len(n.d) > 0}
CountCalls ==
  CountSchemas
    \X (DictsOver({KeyA, KeyB, KeyC}, {VInt(1)}, MaxKeys) \cup {VInt(1), VList(<<>>)})

\* arrays with elements beyond a positional items schema, additionalItems
\* being a schema, in both orders of the two keywords
ExtraItemsCalls ==
  {VDict(q) : q \in Orderings({Item(<<"items">>, VList(<<IntegerNode>>)),
                               Item(<<"additionalItems">>, IntegerNode)})}
    \X {VList(<<VInt(0)>> \o l) : l \in SeqsUpTo({VInt(1), VStr(<<"x">>)}, MaxLen)}

\* the calls drawn for a validator that has served a call: an integer field
\* holding an integer, and holding a string that is no number
AgainCalls == {IntegerNode} \X {VInt(1), VStr(<<"x">>)}

\* the calls drawn for a validator of class cls: <<schema, data>>
Calls(cls) ==
  IF cls = "SchemaCoercer" THEN CoercionCalls \cup UnresolvedCalls
  ELSE IF cls = "ExtendedSchemaValidator" THEN CountCalls
  ELSE ObjectCalls \cup UnionCalls \cup ItemsCalls \cup MinimumCalls \cup UniqueCalls
         \cup DisallowCalls \cup RequiredCalls \cup DefaultCalls
         \cup DependencyCalls \cup ExtraItemsCalls

(***************************************************************************)
(* The state machine: a validator object and the calls made on it          *)
(***************************************************************************)
TopId == <<[t |-> "new", what |-> "top"]>>
\* the {"_data": data} dict of a later call on the same validator: another object
AgainId == <<[t |-> "new", what |-> "again"]>>

NoCall == [op |-> "none", data |-> None, schema |-> None]
NoRet ==
  [exc |-> "none", exc_args |-> <<>>, walking |-> 0, value |-> None, data |-> None,
   schema |-> None]

\* the validator's attributes once the call has ended
Attributes(c) ==
  [c EXCEPT !.exc = "none", !.exc_args = <<>>, !.walking = 0, !.shared = <<>>]

RECURSIVE ValueAt(_, _)
\* the object stored at a place: the fields of path followed from x
ValueAt(x, path) ==
  IF Len(path) = 0 THEN x ELSE ValueAt(Get(x, Head(path), None), Tail(path))

RECURSIVE SchemaLeft(_, _, _, _)
\* the caller's schema node as the call left it, for a node reached through
\* properties at the place loc of the data: a default that is a dict or a list
\* and was written into the data is one object with the value stored there,
\* so it holds whatever the walk wrote into that value (the calls drawn for a
\* coercing validator hold no default, and no other method rebinds a field)
SchemaLeft(schema, loc, shared, top) ==
  IF ~IsDict(schema) THEN schema
  ELSE VDict([i \in 1..Len(schema.d) |->
         Bind(schema.d[i], LAMBDA it :
           IF it.k = <<"default">> /\ it.v.t \in {"dict", "list"}
                /\ \E n \in 1..Len(shared) : shared[n] = loc
             THEN Item(it.k, ValueAt(top, Tail(loc)))
           ELSE IF it.k = <<"properties">> /\ IsDict(it.v)
             THEN Item(it.k, VDict([j \in 1..Len(it.v.d) |->
                    Item(it.v.d[j].k,
                         SchemaLeft(it.v.d[j].v, Append(loc, VStr(it.v.d[j].k)),
                                    shared, top))]))
           ELSE it)])

\* what the caller sees of a call: the exception, the returned value, and its
\* own data and schema objects as the call left them
Outcome(data, wid, schema, r) ==
  [exc |-> r.c.exc,
   exc_args |-> r.c.exc_args,
   walking |-> r.c.walking,
   value |-> IF Raised(r.c) THEN None ELSE r.x,
   data |-> WrittenBack(data, r.x),
   schema |-> SchemaLeft(schema, ChildId(wid, Root), r.c.shared,
                         VDict(<<Item(Root.s, r.x)>>))]

Init ==
  /\ self \in {NewValidator(cls, TRUE, FALSE) :
                 cls \in {"SchemaValidator", "SchemaCoercer", "ExtendedSchemaValidator"}}
               \cup {NewValidator("SchemaValidator", FALSE, FALSE)}
  /\ call = NoCall
  /\ ret = NoRet

\* validator.validate(data, schema) on a new validator
CallValidate(schema, data) ==
  /\ call.op = "none"
  /\ \E r \in {Validate(data, TopId, schema, self)} :
        /\ self' = Attributes(r.c)
        /\ ret' = Outcome(data, TopId, schema, r)
  /\ call' = [op |-> "validate", data |-> data, schema |-> schema]

\* validator.validate(result, schema) once more, on what the first call
\* returned and with the schema object as the first call left it
Revalidate ==
  /\ call.op = "validate"
  /\ ret.exc = "none"
  /\ \E r \in {Validate(ret.value, TopId, ret.schema, self)} :
        /\ self' = Attributes(r.c)
        /\ ret' = Outcome(ret.value, TopId, ret.schema, r)
  /\ call' = [op |-> "revalidate", data |-> ret.value, schema |-> ret.schema]

\* validator.validate(data, schema) on the validator that has served one call,
\* whatever its outcome, with other data and another schema
CallAgain(schema, data) ==
  /\ call.op = "validate"
  /\ \E r \in {Validate(data, AgainId, schema, self)} :
        /\ self' = Attributes(r.c)
        /\ ret' = Outcome(data, AgainId, schema, r)
  /\ call' = [op |-> "again", data |-> data, schema |-> schema]

\* a validator made with required_by_default=False is given the calls that
\* tell the two policies apart
Next ==
  \/ /\ call.op = "none"
     /\ \E in \in (IF self.required_by_default THEN Calls(self.cls) ELSE RequiredCalls) :
           CallValidate(in[1], in[2])
  \/ Revalidate
  \/ \E in \in AgainCalls : CallAgain(in[1], in[2])

Spec == Init /\ [][Next]_vars

(***************************************************************************)
(* The properties                                                          *)
(***************************************************************************)
\* the error list the caller is given: the one the validation error carries
Reported == IF ret.exc = "ValidationError" THEN ret.exc_args ELSE self.error_list

\* how many records of the sequence errs satisfy P
CountOf(errs, P(_)) == Cardinality({i \in 1..Len(errs) : P(errs[i])})

Entry(schema, key) == DictGetOr(schema.d, key, None)
IsObjectCall == call.op = "validate" /\ <<call.schema, call.data>> \in ObjectCalls
IsUnionCall == call.op = "validate" /\ <<call.schema, call.data>> \in UnionCalls
IsItemsCall == call.op = "validate" /\ <<call.schema, call.data>> \in ItemsCalls
IsMinimumCall == call.op = "validate" /\ <<call.schema, call.data>> \in MinimumCalls
IsCoercionCall == call.op = "validate" /\ <<call.schema, call.data>> \in CoercionCalls

\* the keys of the data that properties declares, that a pattern matches, and
\* the others
DeclaredKey(schema, key) ==
  HasKey(schema.d, <<"properties">>) /\ HasKey(Entry(schema, <<"properties">>).d, key)
MatchedKey(schema, key) ==
  /\ HasKey(schema.d, <<"patternProperties">>)
  /\ \E i \in 1..Len(Entry(schema, <<"patternProperties">>).d) :
        ReMatch(Entry(schema, <<"patternProperties">>).d[i].k, key)
UndeclaredKeys(schema, data) ==
  {k \in SeqRange(Keys(data.d)) : ~DeclaredKey(schema, k) /\ ~MatchedKey(schema, k)}
\* the declared properties that are required and that the data lacks
MissingRequired(schema, data) ==
  {k \in SeqRange(Keys(Entry(schema, <<"properties">>).d)) :
     /\ ~HasKey(data.d, k)
     /\ Truthy(DictGetOr(DictGet(Entry(schema, <<"properties">>).d, k).d,
                         <<"required">>, True))}
\* the declared properties (all of type string) that the data holds otherwise
Mistyped(schema, data) ==
  {k \in SeqRange(Keys(Entry(schema, <<"properties">>).d)) :
     HasKey(data.d, k) /\ DictGet(data.d, k).t # "str"}

\* the case of C1: a schema of properties and additionalProperties False (with
\* or without type), a declared required property is absent, the data holds
\* one undeclared key and nothing else is wrong.  A schema that also holds
\* patternProperties is the matter of C5: a key that matches a pattern hands
\* the walk to validate, which raises with the errors found so far.
C1_Case ==
  /\ IsObjectCall
  /\ HasKey(call.schema.d, <<"properties">>)
  /\ ~HasKey(call.schema.d, <<"patternProperties">>)
  /\ Entry(call.schema, <<"additionalProperties">>) = False
  /\ MissingRequired(call.schema, call.data) # {}
  /\ Cardinality(UndeclaredKeys(call.schema, call.data)) = 1
  /\ Mistyped(call.schema, call.data) = {}

C1_Expected ==
  {ErrorRecord("missing-required", VStr(k), None, None) :
     k \in MissingRequired(call.schema, call.data)}
  \cup {ErrorRecord("forbidden-property", None, VStr(k), None) :
          k \in UndeclaredKeys(call.schema, call.data)}

C2_OneForbiddenPerKey ==
  (/\ IsObjectCall
   /\ Entry(call.schema, <<"additionalProperties">>) = False
   /\ ret.walking = 0)
  => \A k \in SeqRange(Keys(call.data.d)) :
        LET IsFor(e) == e.code = "forbidden-property" /\ e.msg = VStr(k)
        IN CountOf(Reported, IsFor) =
             (IF k \in UndeclaredKeys(call.schema, call.data) THEN 1 ELSE 0)

\* the value satisfies one alternative of a union taken alone: type
\* resolution against it, in a new validator, ends with no error
Satisfies(value, alt) ==
  \E r \in {Method("type", VDict(<<Item(Root.s, value)>>), TopId, Root, alt, alt,
                    NewValidator("SchemaValidator", TRUE, FALSE))} :
     ~Raised(r.c) /\ Len(r.c.error_list) = 0
UnionOf(schema) == Entry(schema, <<"type">>)
SatisfiesSome(value, union) == \E i \in 1..Len(union.l) : Satisfies(value, union.l[i])

\* C3 (as stated): a present value that satisfies at least one alternative
\* of a union type yields no error at all, whatever the other alternatives
\* report (the schema being well formed)
C3_UnionAccepts ==
  (/\ IsUnionCall
   /\ SatisfiesSome(call.data, UnionOf(call.schema))
   /\ ret.exc # "SchemaError")
  => ret.exc = "none" /\ Reported = <<>>

\* C4 (as stated): a present value that satisfies no alternative of a union
\* type yields exactly one incorrect-type record, with the whole union as
\* detail and the value as supplement, and no error of an alternative
C4_UnionRejects ==
  (/\ IsUnionCall
   /\ ~SatisfiesSome(call.data, UnionOf(call.schema))
   /\ ret.exc # "SchemaError")
  => /\ ret.exc = "ValidationError"
     /\ ret.exc_args =
          <<ErrorRecord("incorrect-type", None, UnionOf(call.schema), call.data)>>

\* C5 (as stated): a validation error is raised only once the walk has
\* ended, never while a __validate frame is still active
C5_RaisedAfterWalk == ret.exc = "ValidationError" => ret.walking = 0

\* C6 (as stated): whenever a top-level validate call has ended, by a
\* return, a validation error or a schema error, every pushed error scope has
\* been popped: the error stack is empty
C6_StackEmptyAfterCall == call.op # "none" => self.error_stack = <<>>

ItemsOf(schema) == Entry(schema, <<"items">>)
\* the case of C7: the array is shorter than the positional schema and every
\* position it lacks declares a default
C7_Case ==
  /\ IsItemsCall
  /\ Len(call.data.l) < Len(ItemsOf(call.schema).l)
  /\ \A i \in (Len(call.data.l) + 1)..Len(ItemsOf(call.schema).l) :
        HasKey(ItemsOf(call.schema).l[i].d, <<"default">>)
IsLengthError(e) == e.code \in {"incorrect-item-length", "incorrect-list-length"}

\* C7 (as stated): such an array is padded with the defaults of the missing
\* positions, in position order, and no length error is reported
C7_PadsWithDefaults ==
  C7_Case =>
    /\ Len(ret.data.l) = Len(ItemsOf(call.schema).l)
    /\ \A i \in 1..Len(ret.data.l) :
          ret.data.l[i] = IF i <= Len(call.data.l) THEN call.data.l[i]
                          ELSE DictGet(ItemsOf(call.schema).l[i].d, <<"default">>)
    /\ CountOf(Reported, IsLengthError) = 0

IsBelowMinimum(e) == e.code = "less-than-minimum"
\* C8 (as stated): with exclusiveMinimum true a number equal to the minimum
\* has exactly one less-than-minimum record (minimum, value) and a greater
\* number none; without it a number equal to the minimum has none and a
\* number below it has one
C8_MinimumBoundary ==
  (IsMinimumCall /\ call.data.t \in {"int", "long", "float"})
  => LET m == Entry(call.schema, <<"minimum">>)
         exclusive == Truthy(DictGetOr(call.schema.d, <<"exclusiveMinimum">>, False))
         one == Reported = <<ErrorRecord("less-than-minimum", None, m, call.data)>>
         zero == CountOf(Reported, IsBelowMinimum) = 0
     IN /\ (exclusive /\ call.data.n = m.n) => one
        /\ (exclusive /\ call.data.n > m.n) => zero
        /\ (~exclusive /\ call.data.n = m.n) => zero
        /\ (~exclusive /\ call.data.n < m.n) => one

\* C9 (as stated): validating again what a call without errors returned,
\* with the same schema, again yields no error and returns equal data
C9_Idempotent ==
  call.op = "revalidate" =>
    /\ ret.exc = "none"
    /\ self.error_list = <<>>
    /\ PyEq(ret.value, call.data)

\* the integer field of a call of the coercing validator, in a value
IntegerField(v) ==
  CASE v.t = "dict" -> DictGet(v.d, KeyX)
    [] v.t = "list" -> v.l[1]
    [] OTHER -> v
\* the string starts with an optional minus sign and at least one digit
DigitPrefix(q) ==
  LET minus == IF Len(q) > 0 /\ q[1] = "-" THEN 1 ELSE 0
      digits == LeadingDigits(SubSeq(q, minus + 1, Len(q)))
      n == DigitsValue(SubSeq(q, minus + 1, minus + digits))
  IN [found |-> digits > 0, n |-> IF minus = 1 THEN 0 - n ELSE n]

IsImpossibleInteger(e) == e.code = "impossible-integer-coercion"

\* C10 (as stated): under the coercing validator an integer field holding a
\* string that starts with an optional minus sign and at least one digit is
\* overwritten with the integer of that prefix and no error is reported; a
\* string without such a prefix stays in the field, an
\* impossible-integer-coercion record is reported and the call fails
C10_CoercesIntegerStrings ==
  IsCoercionCall =>
    LET before == IntegerField(call.data)
        prefix == DigitPrefix(before.s)
    IN IF prefix.found
         THEN /\ ret.exc = "none"
              /\ Reported = <<>>
              /\ IntegerField(ret.value) = VInt(prefix.n)
         ELSE /\ ret.exc = "ValidationError"
              /\ CountOf(Reported, IsImpossibleInteger) = 1
              /\ IntegerField(ret.data) = before

IsUniqueCall == call.op = "validate" /\ <<call.schema, call.data>> \in UniqueCalls
\* element i of the array l equals an earlier element of its partition
\* (lists and mappings on one side, every other value on the other)
RepeatsEarlier(l, i) ==
  \E j \in 1..(i - 1) :
     /\ (l[j].t \in {"list", "dict"}) = (l[i].t \in {"list", "dict"})
     /\ PyEq(l[j], l[i])
\* the not-unique records an array owes, in the order of its elements
NotUniqueOwed(l) ==
  LET repeats == SelectSeq([i \in 1..Len(l) |-> i], LAMBDA i : RepeatsEarlier(l, i))
  IN [n \in 1..Len(repeats) |-> ErrorRecord("not-unique", None, l[repeats[n]], None)]
IsNotUnique(e) == e.code = "not-unique"
\* every element of the array satisfies the items schema of the call, if any
ElementsFit(schema, l) ==
  HasKey(schema.d, <<"items">>) => \A i \in 1..Len(l) : l[i].t = "int"

\* C11: for an array under uniqueItems true the report holds one not-unique
\* record, carrying the element, for each element that equals an earlier
\* element of its partition, in element order, and no other not-unique record;
\* when the elements also satisfy the items schema these records are the whole
\* report; under uniqueItems false there is no not-unique record
C11_OneRecordPerRepeat ==
  IsUniqueCall =>
    IF Entry(call.schema, <<"uniqueItems">>) = True
      THEN /\ SelectSeq(Reported, IsNotUnique) = NotUniqueOwed(call.data.l)
           /\ ElementsFit(call.schema, call.data.l) =>
                Reported = NotUniqueOwed(call.data.l)
      ELSE CountOf(Reported, IsNotUnique) = 0

\* C11 witness: an array in which one element repeats twice has been validated
\* and two not-unique records were raised
C11_Witness ==
  /\ IsUniqueCall
  /\ Len(NotUniqueOwed(call.data.l)) = 2
  /\ ret.exc = "ValidationError"
  /\ CountOf(ret.exc_args, IsNotUnique) = 2

\* the name of element i (counted from 1) of the array given to the call
ElementName(i) == VStr(FieldLabel(VInt(i - 1)))
\* the report holds an incorrect-type record for the field of that name
TypeErrorAt(name) ==
  \E n \in 1..Len(Reported) :
     Reported[n].code = "incorrect-type" /\ Reported[n].field = name

\* C12 (as stated): under a single items schema every element is validated
\* against it: each element that is no integer, under items of type integer,
\* has an incorrect-type record of its own in the report, also when that is the
\* element's only violation and when an earlier element has failed
C12_EveryElementChecked ==
  (IsUniqueCall /\ HasKey(call.schema.d, <<"items">>))
  => \A i \in 1..Len(call.data.l) :
        call.data.l[i].t # "int" => TypeErrorAt(ElementName(i))

\* C13 (as stated): under positional items an array as long as the schema
\* sequence has every position validated against the schema of that position,
\* so an element that is no integer at a position of type integer has an
\* incorrect-type record, at position 0 or later; and an array whose length
\* still differs after the defaults, additionalItems not being true, has an
\* incorrect-list-length record
C13_EveryPositionChecked ==
  IsItemsCall =>
    /\ Len(call.data.l) = Len(ItemsOf(call.schema).l) =>
         \A i \in 1..Len(call.data.l) :
            (/\ Entry(ItemsOf(call.schema).l[i], <<"type">>) = K("integer")
             /\ call.data.l[i].t # "int")
            => TypeErrorAt(ElementName(i))
    /\ (/\ Len(ret.data.l) # Len(ItemsOf(call.schema).l)
        /\ Entry(call.schema, <<"additionalItems">>) # True)
       => \E n \in 1..Len(Reported) : Reported[n].code = "incorrect-list-length"

IsDisallowCall == call.op = "validate" /\ <<call.schema, call.data>> \in DisallowCalls

\* C14 (as stated): disallow reports exactly when type resolution of the value
\* against the disallowed type ends with no error: a value that matches the
\* disallowed type has one disallowed-type record (the type, the value) and a
\* value that does not match it has none; no error of the probe is reported
C14_DisallowedIffMatched ==
  IsDisallowCall =>
    Reported =
      IF Satisfies(call.data, Entry(call.schema, <<"disallow">>))
        THEN <<ErrorRecord("disallowed-type", None, Entry(call.schema, <<"disallow">>),
                           call.data)>>
        ELSE <<>>

IsRequiredCall == call.op = "validate" /\ <<call.schema, call.data>> \in RequiredCalls
\* the schema node of the declared field k, and its resolved required flag
FieldNode(schema, k) == DictGet(Entry(schema, <<"properties">>).d, k)
ResolvedRequired(node) ==
  Truthy(DictGetOr(node.d, <<"required">>, VBool(self.required_by_default)))
IsMissing(e) == e.code = "missing-required"

\* C15: every declared field of an object has a missing-required record if and
\* only if its key is absent once the defaults are written and its resolved
\* required flag (its own required, else required_by_default) is true: there
\* is one record, named after the field, for an absent required field without
\* default and none for any other; a field that declares a default and is
\* absent holds the default after the call
C15_MissingIffAbsentAndRequired ==
  IsRequiredCall =>
    /\ \A k \in SeqRange(Keys(Entry(call.schema, <<"properties">>).d)) :
          LET node == FieldNode(call.schema, k)
              IsFor(e) == IsMissing(e) /\ e.field = VStr(k)
              absent == ~HasKey(call.data.d, k) /\ ~HasKey(node.d, <<"default">>)
          IN /\ CountOf(Reported, IsFor) =
                  (IF absent /\ ResolvedRequired(node) THEN 1 ELSE 0)
             /\ (~HasKey(call.data.d, k) /\ HasKey(node.d, <<"default">>))
                => /\ HasKey(ret.data.d, k)
                   /\ DictGet(ret.data.d, k) = DictGet(node.d, <<"default">>)
    /\ CountOf(Reported, IsMissing) = Len(Reported)

\* C15 witness: under required_by_default false one absent field with required
\* true was reported, while an absent field without the keyword was not
C15_Witness ==
  /\ IsRequiredCall
  /\ ~self.required_by_default
  /\ ret.exc = "ValidationError"
  /\ Len(ret.exc_args) = 1
  /\ Len(Entry(call.schema, <<"properties">>).d) = 2
  /\ call.data.d = <<>>
  /\ \E k \in {KeyA, KeyB} : FieldNode(call.schema, k) = VDict(<<>>)

\* C16 (as stated): the caller's schema tree is unchanged by validate: after
\* every call, returning or raising, the schema, the values under its default
\* keys included, equals the schema the call was given
C16_SchemaUnchanged == call.op # "none" => ret.schema = call.schema

IsUnresolvedCall == call.op = "validate" /\ <<call.schema, call.data>> \in UnresolvedCalls
IsIncorrectType(e) == e.code = "incorrect-type"
IsImpossible(e) == e.code = "impossible-coercion"

\* C17 (as stated): under the coercing validator, when the conversion of a
\* mismatched field fails, the report holds the errors of the original type
\* check (the incorrect-type record) together with those of the conversion;
\* and a mismatched value under a union or a nested schema has an
\* impossible-coercion record next to the errors of the type check
C17_MergesBothErrorLists ==
  /\ (IsCoercionCall /\ CountOf(Reported, IsImpossibleInteger) > 0)
     => CountOf(Reported, IsIncorrectType) > 0
  /\ (IsUnresolvedCall /\ call.data = VStr(<<"a">>))
     => /\ CountOf(Reported, IsImpossible) = 1
        /\ Len(Reported) > 1

\* the keys of the object that additionalProperties governs and whose value
\* is no integer
UndeclaredNonIntegers(schema, data) ==
  {k \in UndeclaredKeys(schema, data) : DictGet(data.d, k).t # "int"}
IsNoInteger(e) == e.code = "incorrect-type" /\ e.msg = K("integer")

\* C18 (as stated): under the base validator and additionalProperties given
\* as a schema (here of type integer), the value under each key that is neither
\* declared nor matched by a pattern is validated against that schema and its
\* violations are ordinary records of the report: there is one incorrect-type
\* record against integer, carrying the value, for each such key whose value
\* is no integer, and none for any other key or for the object itself
C18_ValidatesValueUnderKey ==
  (IsObjectCall /\ IsDict(Entry(call.schema, <<"additionalProperties">>)))
  => /\ CountOf(Reported, IsNoInteger) =
          Cardinality(UndeclaredNonIntegers(call.schema, call.data))
     /\ \A n \in 1..Len(Reported) :
           IsNoInteger(Reported[n]) =>
             \E k \in UndeclaredNonIntegers(call.schema, call.data) :
                Reported[n].suppl = DictGet(call.data.d, k)

IsDependencyCall == call.op = "validate" /\ <<call.schema, call.data>> \in DependencyCalls
\* the dependency records the field a owes: none when its key is absent, else
\* one for each named sibling that is absent, or one for each pair of the
\* mapping whose key is present and whose value is absent
DependenciesOwed(deps, data) ==
  IF ~HasKey(data.d, KeyA) THEN {}
  ELSE IF IsDict(deps)
    THEN {ErrorRecord("dependency", VStr(KeyA), VStr(deps.d[i].k), deps.d[i].v) :
            i \in {j \in 1..Len(deps.d) :
                     HasKey(data.d, deps.d[j].k) /\ ~HasKey(data.d, deps.d[j].v.s)}}
    ELSE {ErrorRecord("dependency", VStr(KeyA), name, None) :
            name \in {n \in (IF IsStr(deps) THEN {deps} ELSE SeqRange(deps.l)) :
                        ~HasKey(data.d, n.s)}}

\* C19 (as stated): dependencies is evaluated exactly when the key of the
\* field is in its container, whatever the value stored, null included: the
\* report then holds one dependency record for each named sibling that is
\* absent (or for each pair of a mapping with its key present and its value
\* absent), and no record when the key is absent or no sibling is missing
C19_OneRecordPerMissingSibling ==
  IsDependencyCall =>
    LET owed == DependenciesOwed(Entry(FieldNode(call.schema, KeyA), <<"dependencies">>),
                                 call.data)
    IN /\ SeqRange(Reported) = owed
       /\ Len(Reported) = Cardinality(owed)

IsCountCall == call.op = "validate" /\ <<call.schema, call.data>> \in CountCalls
IsNotEnough(e) == e.code = "not-enough-properties"
IsTooMany(e) == e.code = "too-many-properties"

\* C20 (as stated): under the extended validator an object of k keys has a
\* not-enough-properties record if and only if k < minProperties and a
\* too-many-properties record if and only if k > maxProperties; a value that
\* is no object has neither
C20_KeyCountBounds ==
  IsCountCall =>
    LET k == PyLen(call.data)
        below == /\ IsDict(call.data)
                 /\ HasKey(call.schema.d, <<"minProperties">>)
                 /\ k < Entry(call.schema, <<"minProperties">>).n
        above == /\ IsDict(call.data)
                 /\ HasKey(call.schema.d, <<"maxProperties">>)
                 /\ k > Entry(call.schema, <<"maxProperties">>).n
    IN /\ CountOf(Reported, IsNotEnough) = (IF below THEN 1 ELSE 0)
       /\ CountOf(Reported, IsTooMany) = (IF above THEN 1 ELSE 0)

\* C21 (as stated): the state of a validation is scoped to one validate call:
\* a call made on a validator that has served an earlier call ends as the same
\* call ends on a new validator of the same class and policies, with the same
\* exception, the same error list and the same returned data; so valid data
\* given after a failed call is returned with no error
C21_CallsAreIndependent ==
  call.op = "again" =>
    \E r \in {Validate(call.data, AgainId, call.schema,
                       NewValidator(self.cls, self.required_by_default,
                                    self.blank_by_default))} :
       /\ ret.exc = r.c.exc
       /\ ret.exc_args = r.c.exc_args
       /\ ret.value = (IF Raised(r.c) THEN None ELSE r.x)

RECURSIVE PlacesOf(_, _)
\* every place of a value: the names on the way from the root (a property
\* name, or [i] for the element of index i) and the value stored there
PlacesOf(v, path) ==
  {[path |-> path, value |-> v]}
    \cup (CASE v.t = "dict" ->
                 UNION {PlacesOf(v.d[i].v, Append(path, v.d[i].k)) : i \in 1..Len(v.d)}
            [] v.t = "list" ->
                 UNION {PlacesOf(v.l[i], Append(path, FieldLabel(VInt(i - 1)))) :
                          i \in 1..Len(v.l)}
            [] OTHER -> {})
\* the field path of a place, as the records spell it: the names joined by
\* dots, and None for the root
PathName(path) == IF Len(path) = 0 THEN None ELSE VStr(JoinDot(path))

\* C22 (as stated): every record carries the exact path of the value it is
\* about: the field of each incorrect-type record of a first call is the path,
\* from the root of the data given, of a place that holds the value the record
\* carries, through properties, items, additionalItems, patternProperties and
\* nested schemas alike; and when the call returns, the field-path and
\* object-path stacks are empty
C22_ExactFieldPaths ==
  call.op = "validate" =>
    /\ \A n \in 1..Len(Reported) :
          IsIncorrectType(Reported[n]) =>
            \E p \in PlacesOf(call.data, <<>>) :
               /\ PathName(p.path) = Reported[n].field
               /\ p.value = Reported[n].suppl
    /\ ret.exc = "none" => self.current_field = <<>> /\ self.current_object = <<>>

====
